---------------------------- MODULE Spec2Model ----------------------------
(***************************************************************************)
(* A model of rauc's manifest handling (src/src/manifest.c):               *)
(*   - the manifest codec load_manifest / save_manifest over a GKeyFile,   *)
(*   - the bundle orchestration update_manifest / verify_manifest over a   *)
(*     bundle directory holding manifest.raucm, manifest.raucm.sig and the *)
(*     image files.                                                        *)
(*                                                                         *)
(* Representation of C values:                                             *)
(*   - a C string is a non-empty sequence of dot-free segments, the        *)
(*     segments being what lies between the '.' characters:                *)
(*       "image.rootfs" is <<"image", "rootfs">>, "image" is <<"image">>,  *)
(*       "image." is <<"image", "">>.  The '.' is the only character the   *)
(*     code ever inspects (g_strsplit at line 42).                         *)
(*   - the NULL pointer is <<>>; a non-NULL pointer to a structure s is    *)
(*     <<s>>.                                                              *)
(***************************************************************************)
EXTENDS Integers, Sequences, FiniteSets, TLC

(***************************************************************************)
(* Bounds of the model.                                                    *)
(***************************************************************************)
MaxImages == 2
MaxGroups == 3
MaxContent == 1
MaxCalls == 2
MaxCodecSteps == 2
MaxTampers == 1

NULL == <<>>

Str(s) == <<s>>

Opt(S) == S \cup {NULL}

(***************************************************************************)
(* RaucChecksum, RaucImage (include/config_file.h:29-33), RaucManifest.    *)
(* g_new0 zero-fills: every pointer NULL, the checksum of no algorithm.    *)
(***************************************************************************)
NoChecksum == [type |-> "NONE", digest |-> NULL]

Sha256Checksum(d) == [type |-> "SHA256", digest |-> d]

RaucImage(sc, ck, fn) == [slotclass |-> sc, checksum |-> ck, filename |-> fn]

NewManifest ==
  [update_compatible |-> NULL, update_version |-> NULL, keyring |-> NULL,
   handler_name |-> NULL, images |-> <<>>]

RAUC_IMAGE_PREFIX == Str("image")

(***************************************************************************)
(* GKeyFile: an ordered list of groups, each a name and a key/value map.   *)
(* A group exists once a key has been set in it (g_key_file_set_string     *)
(* creates it on demand) or once the parsed file holds its header.         *)
(***************************************************************************)
HasGroup(kf, g) == \E i \in 1..Len(kf) : kf[i].name = g

GroupIndex(kf, g) == CHOOSE i \in 1..Len(kf) : kf[i].name = g

g_key_file_get_string(kf, g, k) ==
  IF HasGroup(kf, g) /\ k \in DOMAIN kf[GroupIndex(kf, g)].kv
  THEN kf[GroupIndex(kf, g)].kv[k]
  ELSE NULL

\* A NULL value is refused (g_return_if_fail) and sets nothing.
g_key_file_set_string(kf, g, k, v) ==
  IF v = NULL THEN kf
  ELSE IF HasGroup(kf, g)
       THEN [kf EXCEPT ![GroupIndex(kf, g)].kv = (k :> v) @@ @]
       ELSE Append(kf, [name |-> g, kv |-> (k :> v)])

g_key_file_get_groups(kf) == [i \in 1..Len(kf) |-> kf[i].name]

\* A file on disk: ok is whether it exists and parses as key-file text.
KeyFileOnDisk(kf) == [ok |-> TRUE, groups |-> kf]

UnreadableFile == [ok |-> FALSE, groups |-> <<>>]

g_key_file_load_from_file(file) == [res |-> file.ok, key_file |-> file.groups]

(***************************************************************************)
(* g_strsplit(s, ".", 2): at most two tokens, split at the first '.'.      *)
(* The vector is NULL-terminated, so the element after the last token      *)
(* reads as NULL.                                                          *)
(***************************************************************************)
g_strsplit(s) ==
  IF Len(s) = 1 THEN << Str(s[1]) >> ELSE << Str(s[1]), Tail(s) >>

VecAt(v, i) == IF i + 1 <= Len(v) THEN v[i + 1] ELSE NULL

\* g_strconcat(RAUC_IMAGE_PREFIX ".", slotclass)
g_strconcat(prefix, s) == prefix \o s

(***************************************************************************)
(* load_manifest, lines 11-71.                                             *)
(***************************************************************************)
IsImageGroup(groupsplit) == VecAt(groupsplit, 0) = RAUC_IMAGE_PREFIX

ImageChecksum(value) ==
  IF value # NULL THEN Sha256Checksum(value) ELSE NoChecksum

LoadImage(key_file, group, groupsplit) ==
  RaucImage(VecAt(groupsplit, 1),
            ImageChecksum(g_key_file_get_string(key_file, group, "sha256")),
            g_key_file_get_string(key_file, group, "filename"))

RECURSIVE LoadImages(_, _, _, _)
LoadImages(key_file, groups, i, images) ==
  IF i > Len(groups) THEN images
  ELSE LET groupsplit == g_strsplit(groups[i])
       IN  IF IsImageGroup(groupsplit)
           THEN LoadImages(key_file, groups, i + 1,
                           Append(images, LoadImage(key_file, groups[i], groupsplit)))
           ELSE LoadImages(key_file, groups, i + 1, images)

\* The value of res at the "goto free" taken when [update] compatible is missing.
ResNoCompatible(res) == res

load_manifest(file) ==
  LET loaded == g_key_file_load_from_file(file)
      key_file == loaded.key_file
      compatible == g_key_file_get_string(key_file, Str("update"), "compatible")
  IN  IF ~loaded.res
      THEN [res |-> FALSE, manifest |-> NewManifest]
      ELSE IF compatible = NULL
      THEN [res |-> ResNoCompatible(loaded.res), manifest |-> NewManifest]
      ELSE [res |-> TRUE,
            manifest |->
              [update_compatible |-> compatible,
               update_version |-> g_key_file_get_string(key_file, Str("update"), "version"),
               keyring |-> g_key_file_get_string(key_file, Str("keyring"), "archive"),
               handler_name |-> g_key_file_get_string(key_file, Str("handler"), "filename"),
               images |-> LoadImages(key_file, g_key_file_get_groups(key_file), 1, <<>>)]]

(***************************************************************************)
(* save_manifest, lines 73-119: the key file it builds.                    *)
(***************************************************************************)
SaveImage(key_file, image) ==
  IF image.slotclass = NULL THEN key_file
  ELSE LET group == g_strconcat(RAUC_IMAGE_PREFIX, image.slotclass)
           k1 == IF image.checksum.type = "SHA256"
                 THEN g_key_file_set_string(key_file, group, "sha256", image.checksum.digest)
                 ELSE key_file
       IN  IF image.filename # NULL
           THEN g_key_file_set_string(k1, group, "filename", image.filename)
           ELSE k1

RECURSIVE SaveImages(_, _, _)
SaveImages(key_file, images, i) ==
  IF i > Len(images) THEN key_file
  ELSE SaveImages(SaveImage(key_file, images[i]), images, i + 1)

save_manifest(mf) ==
  LET k1 == IF mf.update_compatible # NULL
            THEN g_key_file_set_string(<<>>, Str("update"), "compatible", mf.update_compatible)
            ELSE <<>>
      k2 == IF mf.update_version # NULL
            THEN g_key_file_set_string(k1, Str("update"), "version", mf.update_version)
            ELSE k1
      k3 == IF mf.keyring # NULL
            THEN g_key_file_set_string(k2, Str("keyring"), "archive", mf.keyring)
            ELSE k2
      k4 == IF mf.handler_name # NULL
            THEN g_key_file_set_string(k3, Str("handler"), "filename", mf.handler_name)
            ELSE k3
  IN  SaveImages(k4, mf.images, 1)


(***************************************************************************)
(* The providers the orchestration calls: checksum.h, signature.h and      *)
(* utils.h.  A file's bytes are abstracted to a number in 0..MaxContent;   *)
(* Digest is the (injective) SHA-256 of the bytes as a hex string.         *)
(***************************************************************************)
Contents == 0..MaxContent

Digest(c) == Str(ToString(c))

FileNames == {Str("f1"), Str("f2")}

\* g_build_filename(dir, filename, NULL): a NULL filename ends the argument
\* list, which leaves the directory itself.
g_build_filename(filename) == filename

\* The bytes at a path of the bundle directory, NULL when it cannot be read
\* as a file (absent, or the directory itself).
ReadBytes(fs, path) ==
  IF path # NULL /\ path \in DOMAIN fs THEN fs[path] ELSE NULL

update_checksum(checksum, bytes) ==
  IF bytes = NULL
  THEN [res |-> FALSE, checksum |-> checksum]
  ELSE [res |-> TRUE, checksum |-> Sha256Checksum(Digest(bytes[1]))]

verify_checksum(checksum, bytes) ==
  /\ bytes # NULL
  /\ checksum.type = "SHA256"
  /\ checksum.digest = Digest(bytes[1])

\* A detached signature over the bytes of the signed file.
Signature(file) == << [signed |-> file] >>

cms_sign_file(file, ok) == IF ok THEN Signature(file) ELSE NULL

cms_verify_file(file, sig) == sig[1].signed = file

read_file(file) == file

(***************************************************************************)
(* State.                                                                  *)
(***************************************************************************)
VARIABLES
  certpath,   \* r_context()->certpath
  keypath,    \* r_context()->keypath
  mfile,      \* <dir>/manifest.raucm
  sigfile,    \* <dir>/manifest.raucm.sig: NULL when absent, else its bytes
  files,      \* the image files of <dir>: name -> NULL or <<bytes>>
  pc,         \* where the running call stands
  fn,         \* the running (or last) call: "update", "verify", "none"
  signature,  \* its signature argument
  manifest,   \* its local: RaucManifest *manifest
  sig,        \* its local: GBytes *sig
  res,        \* its local: gboolean res
  elem,       \* the loop position of the checksum loop
  calls,      \* the calls made so far by the running call, in order
  entry,      \* the bundle directory as it was when the call was entered
  acquired,   \* per resource, how often the call acquired it
  released,   \* per resource, how often the call released it
  e2e,        \* the last successful update_manifest(dir, FALSE)
  callsLeft,  \* how many more calls the caller makes
  ntampers,   \* image files altered so far
  cstage,     \* codec harness: "mem", "file" or "off"
  cmem,       \* codec harness: the manifest in memory
  cfile,      \* codec harness: the file
  cres,       \* codec harness: the last result
  cin,        \* codec harness: the input it started from
  clog        \* codec harness: the operations applied, in order

orchvars ==
  << certpath, keypath, mfile, sigfile, files, pc, fn, signature, manifest, sig,
     res, elem, calls, entry, acquired, released, e2e, callsLeft, ntampers >>

codecvars == << cstage, cmem, cfile, cres, cin, clog >>

vars == << orchvars, codecvars >>

Resources == {"manifestpath", "signaturepath", "manifest", "sig"}

Disk == [mfile |-> mfile, sigfile |-> sigfile, files |-> files]

Call(f, arg, r) == [fn |-> f, arg |-> arg, res |-> r]

Deref(p) == p[1]

(***************************************************************************)
(* The inputs: manifests in memory and key files on disk.                  *)
(***************************************************************************)
SeqsUpTo(S, n) == UNION {[1..k -> S] : k \in 0..n}

DistinctNames(s) == \A i, j \in 1..Len(s) : s[i].name = s[j].name => i = j

SlotClasses == {Str("a"), Str("b"), <<"a", "b">>}

CodecImages ==
  {RaucImage(sc, ck, f) :
     sc \in Opt(SlotClasses), ck \in {NoChecksum, Sha256Checksum(Digest(0))},
     f \in Opt({Str("f1")})}

CodecManifests ==
  [update_compatible : Opt({Str("board")}), update_version : Opt({Str("v1")}),
   keyring : Opt({Str("ring")}), handler_name : Opt({Str("hook")}),
   images : SeqsUpTo(CodecImages, MaxImages)]

\* The maps from a subset of keys to values.
KeyMaps(keys, values) == UNION {[d -> values] : d \in SUBSET keys}

CodecGroups ==
  UNION {
    {[name |-> Str("update"), kv |-> m] :
       m \in KeyMaps({"compatible", "version"}, {Str("board")})},
    {[name |-> Str("keyring"), kv |-> m] : m \in KeyMaps({"archive"}, {Str("ring")})},
    {[name |-> Str("handler"), kv |-> m] : m \in KeyMaps({"filename"}, {Str("hook")})},
    {[name |-> n, kv |-> m] :
       n \in {<<"image">>, <<"image", "a">>, <<"image", "a", "b">>, <<"image", "">>},
       m \in KeyMaps({"sha256", "filename"}, {Str("f1")})},
    {[name |-> n, kv |-> m] :
       n \in {<<"vendor", "extra">>, <<"imagex", "foo">>},
       m \in KeyMaps({"filename"}, {Str("f1")})} }

CodecFiles ==
  {UnreadableFile} \cup
  {KeyFileOnDisk(g) : g \in {s \in SeqsUpTo(CodecGroups, MaxGroups) : DistinctNames(s)}}


(***************************************************************************)
(* The codec on its own: load_manifest and save_manifest applied, in       *)
(* turn, to an input that is a manifest in memory or a file on disk.       *)
(***************************************************************************)
CodecInputs ==
  {[kind |-> "mem", m |-> m, file |-> UnreadableFile] : m \in CodecManifests}
  \cup {[kind |-> "file", m |-> NewManifest, file |-> f] : f \in CodecFiles}

OrchOff ==
  /\ certpath = NULL /\ keypath = NULL
  /\ mfile = UnreadableFile /\ sigfile = NULL
  /\ files = [f \in FileNames |-> NULL]
  /\ pc = "off" /\ fn = "none" /\ signature = FALSE
  /\ manifest = NULL /\ sig = NULL /\ res = FALSE /\ elem = 1
  /\ calls = <<>>
  /\ entry = [mfile |-> UnreadableFile, sigfile |-> NULL, files |-> [f \in FileNames |-> NULL]]
  /\ acquired = [r \in Resources |-> 0] /\ released = [r \in Resources |-> 0]
  /\ e2e = [updated |-> FALSE, images |-> <<>>, files |-> [f \in FileNames |-> NULL]]
  /\ callsLeft = 0 /\ ntampers = 0

CodecInit ==
  /\ cin \in CodecInputs
  /\ cstage = cin.kind
  /\ cmem = cin.m
  /\ cfile = cin.file
  /\ cres = TRUE
  /\ clog = <<>>
  /\ OrchOff

\* save_manifest of the manifest in memory; callers save a manifest only
\* after a successful load.
CodecSave ==
  /\ cstage = "mem" /\ cres
  /\ Len(clog) < MaxCodecSteps
  /\ cfile' = KeyFileOnDisk(save_manifest(cmem))
  /\ cstage' = "file"
  /\ clog' = Append(clog, "save")
  /\ UNCHANGED << cmem, cres, cin, orchvars >>

CodecLoad ==
  /\ cstage = "file"
  /\ Len(clog) < MaxCodecSteps
  /\ LET r == load_manifest(cfile)
     IN  cmem' = r.manifest /\ cres' = r.res
  /\ cstage' = "mem"
  /\ clog' = Append(clog, "load")
  /\ UNCHANGED << cfile, cin, orchvars >>

CodecNext == CodecSave \/ CodecLoad

SpecCodec == CodecInit /\ [][CodecNext]_vars


(***************************************************************************)
(* The bundle directories the orchestration may start from.                *)
(***************************************************************************)
CodecOff ==
  /\ cstage = "off" /\ cmem = NewManifest /\ cfile = UnreadableFile
  /\ cres = FALSE /\ clog = <<>>
  /\ cin = [kind |-> "off", m |-> NewManifest, file |-> UnreadableFile]

BundleImageGroups ==
  {[name |-> n, kv |-> s @@ f] :
     n \in {<<"image">>, <<"image", "a">>, <<"image", "b">>},
     s \in KeyMaps({"sha256"}, {Digest(0)}),
     f \in KeyMaps({"filename"}, FileNames)}

BundleUpdateGroups ==
  {<<>>, << [name |-> Str("update"), kv |-> [compatible |-> Str("board")]] >>}

BundleManifestFiles ==
  {UnreadableFile} \cup
  {KeyFileOnDisk(u \o g) :
     u \in BundleUpdateGroups,
     g \in {x \in SeqsUpTo(BundleImageGroups, MaxImages) : DistinctNames(x)}}

BundleFiles == [FileNames -> Opt({<<c>> : c \in Contents})]

\* A bundle directory and a caller about to make n calls.
InitBundle(n) ==
  /\ certpath \in Opt({Str("cert")})
  /\ keypath \in Opt({Str("key")})
  /\ mfile \in BundleManifestFiles
  /\ sigfile \in {NULL, Signature(mfile), Signature(UnreadableFile)}
  /\ files \in BundleFiles
  /\ pc = "idle" /\ fn = "none" /\ signature = FALSE
  /\ manifest = NULL /\ sig = NULL /\ res = FALSE /\ elem = 1
  /\ calls = <<>>
  /\ entry = Disk
  /\ acquired = [r \in Resources |-> 0] /\ released = [r \in Resources |-> 0]
  /\ e2e = [updated |-> FALSE, images |-> <<>>, files |-> files]
  /\ callsLeft = n /\ ntampers = 0
  /\ CodecOff

\* One call of update_manifest or verify_manifest on any bundle directory.
Init == InitBundle(1)

(***************************************************************************)
(* Entry of update_manifest and verify_manifest: the two paths are built,  *)
(* the locals initialised and the context asserted (lines 172-179 and      *)
(* 214-221).  A failed g_assert_nonnull aborts the process.                *)
(***************************************************************************)
\* Mutant: the context is asserted only for a signing call.
ContextConfiguredWhenSigning(cert, key, signing) ==
  signing => (cert # NULL /\ key # NULL)

ContextConfigured(cert, key, signing) == cert # NULL /\ key # NULL

Enter(f, s, first) ==
  /\ pc = "idle"
  /\ callsLeft > 0
  /\ callsLeft' = callsLeft - 1
  /\ fn' = f /\ signature' = s
  /\ manifest' = NULL /\ sig' = NULL /\ res' = FALSE /\ elem' = 1
  /\ calls' = <<>>
  /\ entry' = Disk
  /\ acquired' = [r \in Resources |->
                    IF r \in {"manifestpath", "signaturepath"} THEN 1 ELSE 0]
  /\ released' = [r \in Resources |-> 0]
  /\ pc' = IF ContextConfigured(certpath, keypath, s) THEN first ELSE "aborted"
  /\ UNCHANGED << certpath, keypath, mfile, sigfile, files, ntampers, codecvars >>

\* Mutant: the signature buffer is not released.
OutReleaseLeaksSig(m, s) ==
  {"signaturepath", "manifestpath"} \cup (IF m # NULL THEN {"manifest"} ELSE {})

\* The pointers the four lines at "out:" release (lines 205-209, 242-246).
OutRelease(m, s) ==
  {"signaturepath", "manifestpath"}
    \cup (IF s # NULL THEN {"sig"} ELSE {})
    \cup (IF m # NULL THEN {"manifest"} ELSE {})

Out ==
  /\ released' = [r \in Resources |->
                    IF r \in OutRelease(manifest, sig) THEN released[r] + 1
                    ELSE released[r]]
  /\ sig' = NULL /\ manifest' = NULL
  /\ pc' = "returned"

(***************************************************************************)
(* update_manifest.                                                        *)
(***************************************************************************)
CallUpdateManifest ==
  \E s \in BOOLEAN :
    /\ Enter("update", s, "um_load")
    /\ e2e' = [e2e EXCEPT !.updated = FALSE]

\* line 181: load_manifest always hands a manifest back (line 68).
UM_Load ==
  /\ pc = "um_load"
  /\ LET r == load_manifest(mfile)
     IN  /\ manifest' = << r.manifest >>
         /\ res' = r.res
         /\ calls' = Append(calls, Call("load_manifest", 0, r.res))
         /\ pc' = IF r.res THEN "um_checksums" ELSE "um_out"
  /\ acquired' = [acquired EXCEPT !["manifest"] = @ + 1]
  /\ elem' = 1
  /\ UNCHANGED << certpath, keypath, mfile, sigfile, files, fn, signature, sig,
                  entry, released, e2e, callsLeft, ntampers, codecvars >>

\* Mutant: the loop goes on after a failed update_checksum.
UpdateLoopNeverBreaks(r) == FALSE

\* "if (!res) break;" of update_manifest_checksums, lines 149-150.
UpdateLoopBreaks(r) == ~r

\* One round of the loop of update_manifest_checksums, lines 144-151.
UM_Checksum ==
  /\ pc = "um_checksums"
  /\ elem <= Len(Deref(manifest).images)
  /\ LET image == Deref(manifest).images[elem]
         filename == g_build_filename(image.filename)
         r == update_checksum(image.checksum, ReadBytes(files, filename))
     IN  /\ manifest' = << [Deref(manifest) EXCEPT !.images[elem].checksum = r.checksum] >>
         /\ res' = r.res
         /\ calls' = Append(calls, Call("update_checksum", elem, r.res))
         /\ IF UpdateLoopBreaks(r.res)
            THEN pc' = "um_out" /\ elem' = elem
            ELSE pc' = pc /\ elem' = elem + 1
  /\ UNCHANGED << certpath, keypath, mfile, sigfile, files, fn, signature, sig,
                  entry, acquired, released, e2e, callsLeft, ntampers, codecvars >>

\* The loop is over: lines 153 and 186; res is that of the last round.
UM_ChecksumsDone ==
  /\ pc = "um_checksums"
  /\ elem > Len(Deref(manifest).images)
  /\ pc' = IF res THEN "um_save" ELSE "um_out"
  /\ UNCHANGED << certpath, keypath, mfile, sigfile, files, fn, signature,
                  manifest, sig, res, elem, calls, entry, acquired, released,
                  e2e, callsLeft, ntampers, codecvars >>

\* lines 189-193: g_key_file_save_to_file may fail and then leaves the file.
UM_Save ==
  /\ pc = "um_save"
  /\ \E ok \in BOOLEAN :
       /\ mfile' = IF ok THEN KeyFileOnDisk(save_manifest(Deref(manifest))) ELSE mfile
       /\ res' = ok
       /\ calls' = Append(calls, Call("save_manifest", 0, ok))
       /\ pc' = IF ~ok THEN "um_out" ELSE IF signature THEN "um_sign" ELSE "um_out"
  /\ UNCHANGED << certpath, keypath, sigfile, files, fn, signature, manifest, sig,
                  elem, entry, acquired, released, e2e, callsLeft, ntampers, codecvars >>

\* The value of res on the "goto out" taken when cms_sign_file returned NULL,
\* line 198.
ResNoSignature(r) == r

\* lines 194-198.
UM_Sign ==
  /\ pc = "um_sign"
  /\ \E ok \in BOOLEAN :
       LET s == cms_sign_file(mfile, ok)
       IN  /\ sig' = s
           /\ calls' = Append(calls, Call("cms_sign_file", 0, s # NULL))
           /\ acquired' = [acquired EXCEPT !["sig"] = IF s # NULL THEN @ + 1 ELSE @]
           /\ IF s = NULL
              THEN pc' = "um_out" /\ res' = ResNoSignature(res)
              ELSE pc' = "um_write_sig" /\ res' = res
  /\ UNCHANGED << certpath, keypath, mfile, sigfile, files, fn, signature, manifest,
                  elem, entry, released, e2e, callsLeft, ntampers, codecvars >>

\* lines 200-202.
UM_WriteSig ==
  /\ pc = "um_write_sig"
  /\ \E ok \in BOOLEAN :
       /\ sigfile' = IF ok THEN sig ELSE sigfile
       /\ res' = ok
       /\ calls' = Append(calls, Call("write_file", 0, ok))
  /\ pc' = "um_out"
  /\ UNCHANGED << certpath, keypath, mfile, files, fn, signature, manifest, sig,
                  elem, entry, acquired, released, e2e, callsLeft, ntampers, codecvars >>

\* lines 205-210.
UM_Out ==
  /\ pc = "um_out"
  /\ Out
  /\ e2e' = IF res /\ ~signature
            THEN [updated |-> TRUE,
                  images |-> load_manifest(entry.mfile).manifest.images,
                  files |-> files]
            ELSE e2e
  /\ UNCHANGED << certpath, keypath, mfile, sigfile, files, fn, signature, res,
                  elem, calls, entry, acquired, callsLeft, ntampers, codecvars >>

(***************************************************************************)
(* verify_manifest.                                                        *)
(***************************************************************************)
CallVerifyManifest ==
  \E s \in BOOLEAN :
    /\ Enter("verify", s, IF s THEN "vm_read_sig" ELSE "vm_load")
    /\ UNCHANGED e2e

\* lines 224-226.
VM_ReadSig ==
  /\ pc = "vm_read_sig"
  /\ LET s == read_file(sigfile)
     IN  /\ sig' = s
         /\ calls' = Append(calls, Call("read_file", 0, s # NULL))
         /\ acquired' = [acquired EXCEPT !["sig"] = IF s # NULL THEN @ + 1 ELSE @]
         /\ pc' = IF s = NULL THEN "vm_out" ELSE "vm_cms_verify"
  /\ UNCHANGED << certpath, keypath, mfile, sigfile, files, fn, signature, manifest,
                  res, elem, entry, released, e2e, callsLeft, ntampers, codecvars >>

\* Mutant: the result of cms_verify_file is not acted on.
AfterCmsVerifyIgnored(r) == "vm_load"

\* "if (!res) goto out;" after cms_verify_file, lines 229-230.
AfterCmsVerify(r) == IF r THEN "vm_load" ELSE "vm_out"

\* lines 228-230.
VM_CmsVerify ==
  /\ pc = "vm_cms_verify"
  /\ LET r == cms_verify_file(mfile, sig)
     IN  /\ res' = r
         /\ calls' = Append(calls, Call("cms_verify_file", 0, r))
         /\ pc' = AfterCmsVerify(r)
  /\ UNCHANGED << certpath, keypath, mfile, sigfile, files, fn, signature, manifest,
                  sig, elem, entry, acquired, released, e2e, callsLeft, ntampers,
                  codecvars >>

\* lines 234-236.
VM_Load ==
  /\ pc = "vm_load"
  /\ LET r == load_manifest(mfile)
     IN  /\ manifest' = << r.manifest >>
         /\ res' = r.res
         /\ calls' = Append(calls, Call("load_manifest", 0, r.res))
         /\ pc' = IF r.res THEN "vm_checksums" ELSE "vm_out"
  /\ acquired' = [acquired EXCEPT !["manifest"] = @ + 1]
  /\ elem' = 1
  /\ UNCHANGED << certpath, keypath, mfile, sigfile, files, fn, signature, sig,
                  entry, released, e2e, callsLeft, ntampers, codecvars >>

\* Mutant: the loop goes on after a failed verify_checksum.
VerifyLoopNeverBreaks(r) == FALSE

\* "if (!res) break;" of verify_manifest_checksums, lines 164-165.
VerifyLoopBreaks(r) == ~r

\* One round of the loop of verify_manifest_checksums, lines 159-166.
VM_Checksum ==
  /\ pc = "vm_checksums"
  /\ elem <= Len(Deref(manifest).images)
  /\ LET image == Deref(manifest).images[elem]
         filename == g_build_filename(image.filename)
         r == verify_checksum(image.checksum, ReadBytes(files, filename))
     IN  /\ res' = r
         /\ calls' = Append(calls, Call("verify_checksum", elem, r))
         /\ IF VerifyLoopBreaks(r)
            THEN pc' = "vm_out" /\ elem' = elem
            ELSE pc' = pc /\ elem' = elem + 1
  /\ UNCHANGED << certpath, keypath, mfile, sigfile, files, fn, signature, manifest,
                  sig, entry, acquired, released, e2e, callsLeft, ntampers, codecvars >>

\* The loop is over: lines 168 and 238-240; res is that of the last round.
VM_ChecksumsDone ==
  /\ pc = "vm_checksums"
  /\ elem > Len(Deref(manifest).images)
  /\ pc' = "vm_out"
  /\ UNCHANGED << certpath, keypath, mfile, sigfile, files, fn, signature,
                  manifest, sig, res, elem, calls, entry, acquired, released,
                  e2e, callsLeft, ntampers, codecvars >>

\* lines 242-247.
VM_Out ==
  /\ pc = "vm_out"
  /\ Out
  /\ UNCHANGED << certpath, keypath, mfile, sigfile, files, fn, signature, res,
                  elem, calls, entry, acquired, e2e, callsLeft, ntampers, codecvars >>

(***************************************************************************)
(* The caller goes on after a return; between two calls the bytes of an    *)
(* image file may be altered.                                              *)
(***************************************************************************)
Return ==
  /\ pc = "returned"
  /\ pc' = "idle"
  /\ UNCHANGED << certpath, keypath, mfile, sigfile, files, fn, signature,
                  manifest, sig, res, elem, calls, entry, acquired, released,
                  e2e, callsLeft, ntampers, codecvars >>

AlterImageFile ==
  /\ pc = "idle"
  /\ fn # "none"
  /\ callsLeft > 0
  /\ ntampers < MaxTampers
  /\ \E f \in FileNames, c \in Contents :
       /\ files[f] # NULL
       /\ files[f] # << c >>
       /\ files' = [files EXCEPT ![f] = << c >>]
  /\ ntampers' = ntampers + 1
  /\ UNCHANGED << certpath, keypath, mfile, sigfile, pc, fn, signature,
                  manifest, sig, res, elem, calls, entry, acquired, released,
                  e2e, callsLeft, codecvars >>

Next ==
  \/ CallUpdateManifest
  \/ UM_Load
  \/ UM_Checksum
  \/ UM_ChecksumsDone
  \/ UM_Save
  \/ UM_Sign
  \/ UM_WriteSig
  \/ UM_Out
  \/ CallVerifyManifest
  \/ VM_ReadSig
  \/ VM_CmsVerify
  \/ VM_Load
  \/ VM_Checksum
  \/ VM_ChecksumsDone
  \/ VM_Out

Spec == Init /\ [][Next]_vars

\* A caller that makes up to MaxCalls calls in a row on the same directory,
\* image files being altered in between.
InitE2E == InitBundle(MaxCalls)

NextE2E == Next \/ Return \/ AlterImageFile

SpecE2E == InitE2E /\ [][NextE2E]_vars

(***************************************************************************)
(* Claims about the codec, checked under SpecCodec.                        *)
(***************************************************************************)
HasCompatibleKey(file) ==
  \E i \in 1..Len(file.groups) :
    /\ file.groups[i].name = <<"update">>
    /\ "compatible" \in DOMAIN file.groups[i].kv

\* C4: load_manifest fails on every input that has no [update] section or no
\* compatible key in it, and never succeeds with update_compatible absent.
C4_LoadRejectsMissingCompatible ==
  (clog = <<"load">>) =>
    /\ ~HasCompatibleKey(cin.file) => ~cres
    /\ cres => cmem.update_compatible # NULL

DistinctSlotClasses(images) ==
  \A i, j \in 1..Len(images) :
    images[i].slotclass = images[j].slotclass => i = j

RoundTripInput(m) ==
  /\ m.update_compatible # NULL
  /\ \A i \in 1..Len(m.images) : m.images[i].slotclass # NULL
  /\ DistinctSlotClasses(m.images)

\* C5: for a manifest with update_compatible present and images of pairwise
\* distinct, present slot classes, load_manifest of what save_manifest wrote
\* succeeds and yields the same manifest, image list included.
C5_RoundTrip ==
  (cin.kind = "mem" /\ clog = <<"save", "load">> /\ RoundTripInput(cin.m)) =>
    (cres /\ cmem = cin.m)

\* The section names of the form image.<slot_class>, and the names the codec knows.
IsImageSectionName(name) == Len(name) >= 2 /\ name[1] = "image"

IsKnownSectionName(name) ==
  \/ name \in {<<"update">>, <<"keyring">>, <<"handler">>}
  \/ IsImageSectionName(name)

\* C6: load_manifest creates an Image only for the sections named
\* image.<slot_class>; any section of another name contributes nothing to the
\* decoded manifest and is absent from what save_manifest then writes.
C6_OnlyImageSectionsYieldImages ==
  /\ (clog = <<"load">>) =>
       \A k \in 1..Len(cmem.images) :
         \E i \in 1..Len(cin.file.groups) :
           /\ IsImageSectionName(cin.file.groups[i].name)
           /\ cmem.images[k].slotclass = Tail(cin.file.groups[i].name)
  /\ (clog = <<"load", "save">>) =>
       \A i \in 1..Len(cfile.groups) : IsKnownSectionName(cfile.groups[i].name)


(***************************************************************************)
(* Claims about the orchestration, checked under Spec and SpecE2E.         *)
(***************************************************************************)
Made(f, r) == \E k \in 1..Len(calls) : calls[k].fn = f /\ calls[k].res = r

MadeAny(f) == \E k \in 1..Len(calls) : calls[k].fn = f

\* Before the k-th call: read_file gave a signature, and cms_verify_file
\* then succeeded.
SignatureGatePassed(k) ==
  \E i, j \in 1..(k - 1) :
    /\ i < j
    /\ calls[i] = Call("read_file", 0, TRUE)
    /\ calls[j] = Call("cms_verify_file", 0, TRUE)

\* C1: in verify_manifest(dir, TRUE), load_manifest and verify_checksum are
\* called only after read_file returned a signature and cms_verify_file then
\* succeeded; with the signature file missing or the signature invalid the
\* call fails without parsing the manifest.
C1_SignatureGate ==
  (fn = "verify" /\ signature) =>
    /\ \A k \in 1..Len(calls) :
         calls[k].fn \in {"load_manifest", "verify_checksum"} => SignatureGatePassed(k)
    /\ (pc = "returned" /\ entry.sigfile # Signature(entry.mfile)) =>
         (~res /\ ~MadeAny("load_manifest") /\ ~MadeAny("verify_checksum"))

C1_Witness ==
  /\ pc = "returned" /\ fn = "verify" /\ signature
  /\ entry.sigfile # NULL /\ entry.sigfile # Signature(entry.mfile)
  /\ load_manifest(entry.mfile).res
  /\ Len(load_manifest(entry.mfile).manifest.images) = 2
  /\ ~res

IsVerifyChecksum(c) == c.fn = "verify_checksum"

IsUpdateChecksum(c) == c.fn = "update_checksum"

\* C2: verify_manifest checks the images in list order, stops at the first
\* image whose verify_checksum fails and then fails; it succeeds only if
\* every image of the decoded manifest passed verify_checksum.
C2_ChecksumGate ==
  (fn = "verify") =>
    LET vc == SelectSeq(calls, IsVerifyChecksum)
        decoded == load_manifest(entry.mfile).manifest.images
    IN  /\ \A k \in 1..Len(vc) : vc[k].arg = k
        /\ \A k \in 1..Len(vc) : ~vc[k].res => k = Len(vc)
        /\ (pc = "returned" /\ \E k \in 1..Len(vc) : ~vc[k].res) => ~res
        /\ (pc = "returned" /\ res) =>
             /\ Len(vc) = Len(decoded)
             /\ \A k \in 1..Len(vc) : vc[k].res

C2_Witness ==
  /\ pc = "returned" /\ fn = "verify" /\ ~res
  /\ Len(load_manifest(entry.mfile).manifest.images) = 2
  /\ SelectSeq(calls, IsVerifyChecksum) = << Call("verify_checksum", 1, FALSE) >>
  /\ verify_checksum(load_manifest(entry.mfile).manifest.images[2].checksum,
                     ReadBytes(files, load_manifest(entry.mfile).manifest.images[2].filename))

\* C3: update_manifest(dir, TRUE) fails when cms_sign_file returns no
\* signature and when write_file of manifest.raucm.sig fails; it succeeds
\* only if a signature was produced and written.
C3_SignFailureFails ==
  (pc = "returned" /\ fn = "update" /\ signature) =>
    /\ Made("cms_sign_file", FALSE) => ~res
    /\ Made("write_file", FALSE) => ~res
    /\ res => (Made("cms_sign_file", TRUE) /\ Made("write_file", TRUE))

\* C7: in update_manifest, once update_checksum fails for an image no later
\* image is touched, the call fails, and neither manifest.raucm nor
\* manifest.raucm.sig is written: the bundle directory is as it was.
C7_ChecksumFailureLeavesBundle ==
  (fn = "update" /\ pc # "idle" /\ Made("update_checksum", FALSE)) =>
    /\ \A k \in 1..Len(calls) :
         (calls[k].fn = "update_checksum" /\ ~calls[k].res) => k = Len(calls)
    /\ ~res
    /\ Disk = entry

C7_Witness ==
  /\ pc = "returned" /\ fn = "update"
  /\ Len(load_manifest(entry.mfile).manifest.images) = 2
  /\ SelectSeq(calls, IsUpdateChecksum) = << Call("update_checksum", 1, FALSE) >>
  /\ ReadBytes(files, load_manifest(entry.mfile).manifest.images[2].filename) # NULL

ListedFiles(images) == {images[i].filename : i \in 1..Len(images)} \ {NULL}

ChangedFiles == {f \in FileNames : files[f] # e2e.files[f]}

\* C8: after a successful update_manifest(D, FALSE) the rewritten manifest
\* stores, for each image of the manifest it decoded, the digest of its
\* file; a verify_manifest(D, FALSE) that follows with no file changed
\* succeeds, and fails if the bytes of an image file listed in the original
\* manifest were changed after the update.
C8_EndToEnd ==
  /\ (pc = "returned" /\ fn = "update" /\ ~signature /\ res) =>
       LET orig == load_manifest(entry.mfile).manifest.images
           now == load_manifest(mfile).manifest.images
       IN  \A i \in 1..Len(orig) :
             \E j \in 1..Len(now) :
               /\ now[j].slotclass = orig[i].slotclass
               /\ now[j].filename = orig[i].filename
               /\ now[j].checksum =
                    Sha256Checksum(Digest(files[orig[i].filename][1]))
  /\ (pc = "returned" /\ fn = "verify" /\ ~signature /\ e2e.updated) =>
       /\ ChangedFiles = {} => res
       /\ ChangedFiles \cap ListedFiles(e2e.images) # {} => ~res

\* C9: on every return of update_manifest and verify_manifest each resource
\* the call acquired (the manifest load_manifest handed back, the signature
\* buffer, the two paths) has been released exactly once.
C9_ReleasedExactlyOnce ==
  (pc = "returned") =>
    \A r \in Resources : acquired[r] <= 1 /\ released[r] = acquired[r]

C9_Witness ==
  /\ pc = "returned" /\ fn = "verify" /\ signature /\ ~res
  /\ acquired["sig"] = 1 /\ acquired["manifest"] = 1
  /\ calls[Len(calls)] = Call("load_manifest", 0, FALSE)

\* C10: both calls assert that the certificate path and the key path are
\* configured before any file is read or written and before any provider is
\* called, whatever the signature flag: with either unset the call aborts
\* and the bundle directory is untouched.
C10_ContextAssertedFirst ==
  ((certpath = NULL \/ keypath = NULL) /\ pc # "idle") =>
    /\ pc = "aborted"
    /\ calls = <<>>
    /\ Disk = entry

C10_Witness ==
  /\ pc = "aborted" /\ fn = "update" /\ ~signature
  /\ certpath # NULL /\ keypath = NULL
  /\ load_manifest(mfile).res

=============================================================================
